---- MODULE Spec2Model ----
(***************************************************************************)
(* A model of nn.py: the layer model and its offset table (NnModel), the   *)
(* parameter codec (pack_params / unpack_params), the classifier's         *)
(* train / predict entry points (NnClassifier), the gradient-descent loop  *)
(* (GradDescentOptimizer.optimize) and the relu activation functions.      *)
(*                                                                         *)
(* Numbers are integers: the claims checked here are about layout, shapes, *)
(* call order and the boundary z = 0, none of which depends on fractions.  *)
(* Python lists are sequences; the Python index k is position k + 1.       *)
(***************************************************************************)
EXTENDS Integers, Sequences, FiniteSets, TLC

\* ------------------------------------------------------------- bounds
\* Largest layer width / matrix side offered to add and pack_params.
MaxDim == 2
\* Largest number of entries of NnModel.layers (input layer included).
MaxLayers == 3
\* Largest iteration count given to GradDescentOptimizer.
MaxIters == 201
\* Largest batch size / vector length offered to the activation functions.
MaxBatch == 2

\* ------------------------------------------------------------- program constants
\* optimize: `if i % 100 == 0`
LogEvery == 100

VARIABLES
    layers,         \* NnModel.layers: sequence of NnLayer
    layer_offsets,  \* NnModel.layer_offsets
    clsParams,      \* NnClassifier.params (None until train completes)
    lastOp,         \* the last call made on the model / classifier and its outcome
    opt,            \* the frame of GradDescentOptimizer.optimize
    act             \* the arguments and results of the relu functions

vars == <<layers, layer_offsets, clsParams, lastOp, opt, act>>

\* ------------------------------------------------------------- Python lists
\* The position (1-based) of Python index k in a list of length n, or 0 when
\* the index raises IndexError.  Negative indices count from the end.
PyIndex(n, k) ==
    IF k >= 0 /\ k < n THEN k + 1
    ELSE IF k < 0 /\ k >= -n THEN n + k + 1
    ELSE 0

Min(a, b) == IF a < b THEN a ELSE b
Max(a, b) == IF a > b THEN a ELSE b

\* ------------------------------------------------------------- NnLayer / NnModel
NnLayer(dim, activation) == [dim |-> dim, activation |-> activation]

\* NnModel.activations: the keys of the registry.
activations == {"relu", "sigmoid"}

\* The activation names callers may pass to add; "tanh" is not registered.
ActivationArgs == {"relu", "sigmoid", "tanh"}

\* An entry of a layer_offsets pair: a (lo, hi) tuple, or the bare integer 0
\* of the placeholder entry (0, 0) of layer 0, which cannot be subscripted.
Range(lo, hi) == [subscriptable |-> TRUE, lo |-> lo, hi |-> hi]
Scalar0 == [subscriptable |-> FALSE, lo |-> 0, hi |-> 0]

\* add, first statement: the input layer is appended when input_dim is given
\* and the model has no layer yet.
addInputLayer(ls, input_dim) ==
    IF input_dim # 0 /\ ls = <<>>
    THEN Append(ls, NnLayer(input_dim, "none"))
    ELSE ls

\* add(units, activation, input_dim): the layers after the call and whether
\* the registry lookup raised KeyError.  The input layer is appended before
\* the lookup.
addResult(ls, units, activation, input_dim) ==
    LET withInput == addInputLayer(ls, input_dim)
    IN  IF activation \in activations
        THEN [status |-> "ok",
              layers |-> Append(withInput, NnLayer(units, activation))]
        ELSE [status |-> "KeyError", layers |-> withInput]

\* compile with the bias length left out of the running offset: the next
\* layer's weights would start on this layer's bias.
RECURSIVE compileLoopNoBias(_, _, _, _)
compileLoopNoBias(ls, layer, offset, table) ==
    IF layer >= Len(ls) THEN table
    ELSE LET prev_layer_dim == ls[layer].dim
             layer_dim == ls[layer + 1].dim
             w_hi == offset + prev_layer_dim * layer_dim
         IN  compileLoopNoBias(ls, layer + 1, offset + prev_layer_dim * layer_dim,
                               Append(table, <<Range(offset, w_hi),
                                               Range(w_hi, w_hi + layer_dim)>>))

\* compile: the loop over layer = 1 .. len(layers) - 1.
RECURSIVE compileLoop(_, _, _, _)
compileLoop(ls, layer, offset, table) ==
    IF layer >= Len(ls) THEN table
    ELSE LET prev_layer_dim == ls[layer].dim
             layer_dim == ls[layer + 1].dim
             w_hi == offset + prev_layer_dim * layer_dim
             w_offset == Range(offset, w_hi)
             b_offset == Range(w_hi, w_hi + layer_dim)
         IN  compileLoop(ls, layer + 1,
                         offset + prev_layer_dim * layer_dim + layer_dim,
                         Append(table, <<w_offset, b_offset>>))

compileTable(ls) == compileLoop(ls, 1, 0, << <<Scalar0, Scalar0>> >>)

\* ------------------------------------------------------------- arrays
\* A 2-D array is a sequence of rows; every array here has at least one row.
Shape(M) == <<Len(M), Len(M[1])>>

\* np.zeros(n)
zeros(n) == [k \in 1..n |-> 0]

\* The entries of M column after column, as a Fortran-ordered reshape would
\* list them.
FlattenColumnMajor(M) ==
    LET r == Len(M)
        c == Len(M[1])
    IN  [k \in 1..(r * c) |-> M[((k - 1) % r) + 1][((k - 1) \div r) + 1]]

\* M.reshape((-1, 1)) of a C-ordered 2-D array, as the flat list of its
\* entries: row after row.
Flatten(M) ==
    LET r == Len(M)
        c == Len(M[1])
    IN  [k \in 1..(r * c) |-> M[((k - 1) \div c) + 1][((k - 1) % c) + 1]]

\* flat.reshape((r, c)): entry (i, j) is flat[(i - 1) * c + j].
Reshape(flat, r, c) == [i \in 1..r |-> [j \in 1..c |-> flat[(i - 1) * c + j]]]

\* The number of elements a[lo:hi] selects in an array of length n
\* (0 <= lo, hi): numpy clamps both ends to n.
SliceLen(n, lo, hi) == Max(0, Min(hi, n) - Min(lo, n))

\* a[lo:hi]
Slice(a, lo, hi) == SubSeq(a, Min(lo, Len(a)) + 1, Min(hi, Len(a)))

\* a[lo:hi, ...] = vals, where vals has shape (len(vals), 1): written when the
\* lengths agree, broadcast when vals has one element, ValueError otherwise.
SliceAssign(a, lo, hi, vals) ==
    LET start == Min(lo, Len(a))
        k == SliceLen(Len(a), lo, hi)
    IN  IF Len(vals) = k
        THEN [status |-> "ok",
              params |-> [x \in 1..Len(a) |->
                            IF x > start /\ x <= start + k
                            THEN vals[x - start] ELSE a[x]]]
        ELSE IF Len(vals) = 1
        THEN [status |-> "ok",
              params |-> [x \in 1..Len(a) |->
                            IF x > start /\ x <= start + k
                            THEN vals[1] ELSE a[x]]]
        ELSE [status |-> "ValueError", params |-> a]

\* ------------------------------------------------------------- parameter codec
\* pack_params(layer, params, W, b) on a model with layers ls and offset table
\* offs: the outcome and the contents of params afterwards.  params is a 1-D
\* contiguous array, so params.reshape((-1, 1)) is a view and the writes land
\* in the caller's array.
pack_params(ls, offs, layer, params, W, b) ==
    LET li == PyIndex(Len(ls), layer)
        pi == PyIndex(Len(ls), layer - 1)
        oi == PyIndex(Len(offs), layer)
        fail(e) == [status |-> e, params |-> params]
    IN  IF li = 0 \/ pi = 0 THEN fail("IndexError")
        ELSE IF Shape(W) # <<ls[li].dim, ls[pi].dim>> THEN fail("AssertionError")
        ELSE IF Shape(b) # <<ls[li].dim, 1>> THEN fail("AssertionError")
        ELSE IF oi = 0 THEN fail("IndexError")
        ELSE LET w_offset == offs[oi][1]
                 b_offset == offs[oi][2]
             IN  IF ~w_offset.subscriptable THEN fail("TypeError")
                 ELSE LET afterW == SliceAssign(params, w_offset.lo, w_offset.hi,
                                                Flatten(W))
                      IN  IF afterW.status # "ok" THEN afterW
                          ELSE IF ~b_offset.subscriptable
                          THEN [status |-> "TypeError", params |-> afterW.params]
                          ELSE SliceAssign(afterW.params, b_offset.lo,
                                           b_offset.hi, Flatten(b))

\* unpack_params(layer, params): the outcome and the (W, b) returned.  params
\* is [isNone |-> TRUE] for Python's None, which cannot be subscripted.
unpack_params(ls, offs, layer, params) ==
    LET li == PyIndex(Len(ls), layer)
        pi == PyIndex(Len(ls), layer - 1)
        oi == PyIndex(Len(offs), layer)
        fail(e) == [status |-> e, W |-> <<>>, b |-> <<>>]
    IN  IF li = 0 \/ pi = 0 THEN fail("IndexError")
        ELSE IF oi = 0 THEN fail("IndexError")
        ELSE LET prev_layer_dim == ls[pi].dim
                 layer_dim == ls[li].dim
                 w_offset == offs[oi][1]
                 b_offset == offs[oi][2]
             IN  IF ~w_offset.subscriptable \/ params.isNone THEN fail("TypeError")
                 ELSE LET wflat == Slice(params.v, w_offset.lo, w_offset.hi)
                          bflat == Slice(params.v, b_offset.lo, b_offset.hi)
                      IN  IF Len(wflat) # layer_dim * prev_layer_dim
                          THEN fail("ValueError")
                          ELSE IF ~b_offset.subscriptable THEN fail("TypeError")
                          ELSE IF Len(bflat) # layer_dim THEN fail("ValueError")
                          ELSE [status |-> "ok",
                                W |-> Reshape(wflat, layer_dim, prev_layer_dim),
                                b |-> Reshape(bflat, layer_dim, 1)]

\* An array value and Python's None, as the params argument of unpack_params.
Arr(v) == [isNone |-> FALSE, v |-> v]
None == [isNone |-> TRUE, v |-> <<>>]

\* ------------------------------------------------------------- classifier
\* The length of the flat parameter vector as _init_params computes it: the
\* sum over l = 1 .. len(model) - 1 of dim[l] * dim[l-1] + dim[l].
RECURSIVE paramDimFrom(_, _)
paramDimFrom(ls, l) ==
    IF l >= Len(ls) THEN 0
    ELSE ls[l + 1].dim * ls[l].dim + ls[l + 1].dim + paramDimFrom(ls, l + 1)

paramDim(ls) == paramDimFrom(ls, 1)

\* An r x c array with pairwise different non-zero entries, counted row by
\* row from base + 1: stands for the caller's W, b and for randn's output.
Mat(r, c, base) == [i \in 1..r |-> [j \in 1..c |-> base + (i - 1) * c + j]]

\* np.zeros((r, 1))
zerosCol(r) == [i \in 1..r |-> <<0>>]

\* _init_params, second loop: pack W, b of layer l, l + 1, ... into params,
\* stopping at the first pack_params that raises.
RECURSIVE initLoop(_, _, _, _)
initLoop(ls, offs, l, params) ==
    IF l >= Len(ls) THEN [status |-> "ok", params |-> params]
    ELSE LET r == pack_params(ls, offs, l, params,
                              Mat(ls[l + 1].dim, ls[l].dim, 10 * l),
                              zerosCol(ls[l + 1].dim))
         IN  IF r.status # "ok" THEN r
             ELSE initLoop(ls, offs, l + 1, r.params)

init_params(ls, offs) == initLoop(ls, offs, 1, zeros(paramDim(ls)))

\* The layer loop shared by _propagate_forward and predict, on shapes: rows is
\* the number of rows of A[l-1].  np.dot(W, A) raises ValueError unless W has
\* as many columns as A has rows; A[l] then has dim[l] rows.  The result is
\* the outcome and the number of rows of the last activation.
RECURSIVE forwardLoop(_, _, _, _, _)
forwardLoop(ls, offs, params, l, rows) ==
    IF l >= Len(ls) THEN [status |-> "ok", rows |-> rows]
    ELSE LET u == unpack_params(ls, offs, l, params)
         IN  IF u.status # "ok" THEN [status |-> u.status, rows |-> rows]
             ELSE IF Len(u.W[1]) # rows THEN [status |-> "ValueError", rows |-> rows]
             ELSE forwardLoop(ls, offs, params, l + 1, Len(u.W))

\* train(X, Y) with X of shape (xn, m), Y of shape (1, m) and an optimizer of
\* iters iterations: the outcome and the value stored in self.params.  The
\* entries of the trained vector are not modelled beyond the initial guess;
\* its length is.  Every cost evaluation runs the forward loop on the current
\* parameters; the cost and the backward pass raise nothing the forward loop
\* did not.
trainResult(ls, offs, xn, iters) ==
    LET guess == init_params(ls, offs)
    IN  IF guess.status # "ok" THEN [status |-> guess.status, stored |-> FALSE,
                                     params |-> <<>>]
        ELSE IF iters = 0 THEN [status |-> "ok", stored |-> TRUE,
                                params |-> guess.params]
        ELSE LET f == forwardLoop(ls, offs, Arr(guess.params), 1, xn)
             IN  [status |-> f.status, stored |-> f.status = "ok",
                  params |-> guess.params]

\* predict(X) with X of shape (xn, m) and self.params = params.
predictResult(ls, offs, params, xn) ==
    IF PyIndex(Len(ls), 0) = 0 THEN "IndexError"
    ELSE IF xn # ls[1].dim THEN "AssertionError"
    ELSE LET f == forwardLoop(ls, offs, params, 1, xn)
         IN  IF f.status # "ok" THEN f.status
             ELSE IF f.rows # 1 THEN "AssertionError"
             ELSE "ok"

\* ------------------------------------------------------------- model actions
Dims == 1..MaxDim
LayerArgs == (-MaxLayers)..MaxLayers

\* The optimizer and the activation functions are not running.
optIdle == [pc |-> "idle"]
actIdle == [pc |-> "idle"]

\* NnModel() and NnClassifier(model, optimizer, lambd)
Init ==
    /\ layers = <<>>
    /\ layer_offsets = <<>>
    /\ clsParams = None
    /\ lastOp = [op |-> "new", status |-> "ok"]
    /\ opt = optIdle
    /\ act = actIdle

\* model.add(units, activation, input_dim) with activation drawn from actSet.
addFrom(actSet) ==
    \E units \in Dims, activation \in actSet, input_dim \in 0..MaxDim :
        LET r == addResult(layers, units, activation, input_dim)
        IN  /\ Len(r.layers) <= MaxLayers
            /\ layers' = r.layers
            /\ lastOp' = [op |-> "add", status |-> r.status]
            /\ UNCHANGED <<layer_offsets, clsParams, opt, act>>

\* add with any activation name, registered or not.
add == addFrom(ActivationArgs)

\* add with the one activation name main() uses for its hidden layers; the
\* codec reads no activation.
addRelu == addFrom({"relu"})

\* model.compile()
compile ==
    /\ layer_offsets' = compileTable(layers)
    /\ lastOp' = [op |-> "compile", status |-> "ok"]
    /\ UNCHANGED <<layers, clsParams, opt, act>>

\* The record of a pack_params call on a fresh all-zero params of the model's
\* total length, as _init_params and _propagate_backward allocate it.
packCall(layer, W, b) ==
    LET before == zeros(paramDim(layers))
        res == pack_params(layers, layer_offsets, layer, before, W, b)
    IN  [op |-> "pack_params", status |-> res.status,
         layer |-> layer, W |-> W, b |-> b,
         before |-> before, params |-> res.params]

\* model.pack_params(layer, params, W, b) with any layer index, negative ones
\* included, W of any shape up to MaxDim x MaxDim and b of any shape up to
\* MaxDim x 2.
pack ==
    \E layer \in LayerArgs, r \in Dims, c \in Dims, br \in Dims, bc \in 1..2 :
        /\ lastOp' = packCall(layer, Mat(r, c, 10), Mat(br, bc, 50))
        /\ UNCHANGED <<layers, layer_offsets, clsParams, opt, act>>

\* model.pack_params(l, params, W, b) as the classifier calls it: for a
\* transformation layer l of the model, with W of shape (dim[l], dim[l-1]) and
\* b of shape (dim[l], 1).
packLayer ==
    \E l \in 1..(Len(layers) - 1), base \in {10, -5} :
        /\ lastOp' = packCall(l, Mat(layers[l + 1].dim, layers[l].dim, base),
                              Mat(layers[l + 1].dim, 1, 50))
        /\ UNCHANGED <<layers, layer_offsets, clsParams, opt, act>>

\* model.unpack_params(layer, params) on the vector the preceding pack_params
\* wrote into.
unpack ==
    /\ lastOp.op = "pack_params"
    /\ \E layer \in 0..MaxLayers :
        LET res == unpack_params(layers, layer_offsets, layer, Arr(lastOp.params))
        IN  /\ lastOp' = [op |-> "unpack_params", status |-> res.status,
                          layer |-> layer, W |-> res.W, b |-> res.b,
                          packed |-> lastOp]
            /\ UNCHANGED <<layers, layer_offsets, clsParams, opt, act>>

\* classifier.train(X, Y)
train ==
    \E xn \in Dims, iters \in 0..1 :
        LET r == trainResult(layers, layer_offsets, xn, iters)
        IN  /\ clsParams' = IF r.stored THEN Arr(r.params) ELSE clsParams
            /\ lastOp' = [op |-> "train", status |-> r.status]
            /\ UNCHANGED <<layers, layer_offsets, opt, act>>

\* classifier.predict(X)
predict ==
    \E xn \in Dims :
        /\ lastOp' = [op |-> "predict",
                      status |-> predictResult(layers, layer_offsets, clsParams, xn),
                      trained |-> ~clsParams.isNone]
        /\ UNCHANGED <<layers, layer_offsets, clsParams, opt, act>>

\* The layer model and the codec's writer under arbitrary arguments.
Next == addRelu \/ compile \/ pack

Spec == Init /\ [][Next]_vars

\* The layer model alone.
NextLayout == add \/ compile

SpecLayout == Init /\ [][NextLayout]_vars

\* The layer model and the codec, writer then reader.
NextCodec == addRelu \/ compile \/ packLayer \/ unpack

SpecCodec == Init /\ [][NextCodec]_vars

\* The layer model and the classifier.
NextCls == add \/ compile \/ packLayer \/ train \/ predict

SpecCls == Init /\ [][NextCls]_vars

\* ------------------------------------------------------------- optimizer
\* The objectives offered as cost_fn, on a one-entry parameter vector p: each
\* returns (cost, grad).
CostFns == {"flat", "abs", "slope"}

cost_fn(fn, p) ==
    IF fn = "flat" THEN [cost |-> 0, grad |-> 0]
    ELSE IF fn = "abs"
    THEN [cost |-> IF p < 0 THEN -p ELSE p,
          grad |-> IF p < 0 THEN -1 ELSE IF p > 0 THEN 1 ELSE 0]
    ELSE [cost |-> p, grad |-> 1]

\* A step up the gradient instead of down.
ascend(params, alpha, grad) == params + alpha * grad

\* optimize: `params - self.alpha * grad`
descend(params, alpha, grad) == params - alpha * grad

\* Logging at the end of each block of 100 iterations instead of its start.
loggedAtBlockEnd(i) == i % LogEvery = LogEvery - 1

\* optimize: `if i % 100 == 0`
logged(i) == i % LogEvery = 0

\* optimize: `for i in range(self.iters)` has a next value after i values
\* were taken.
moreIters(i, iters) == i < iters

\* optimize(cost_fn, params) on entry: the optimizer's fields, the loop's
\* locals, and the log of the calls made to cost_fn.
optEntry(iters, alpha, fn, p0) ==
    [pc |-> "running", iters |-> iters, alpha |-> alpha, fn |-> fn, p0 |-> p0,
     i |-> 0, params |-> p0, costs |-> <<>>, calls |-> <<>>]

InitOpt ==
    /\ layers = <<>>
    /\ layer_offsets = <<>>
    /\ clsParams = None
    /\ lastOp = [op |-> "new", status |-> "ok"]
    /\ act = actIdle
    /\ \E iters \in 0..MaxIters, alpha \in 1..2, fn \in CostFns :
        \E p0 \in {-2, 3} : opt = optEntry(iters, alpha, fn, p0)

\* One pass through the loop body.
optStep ==
    /\ opt.pc = "running"
    /\ moreIters(opt.i, opt.iters)
    /\ LET r == cost_fn(opt.fn, opt.params)
       IN  opt' = [opt EXCEPT
                     !.calls = Append(@, [params |-> opt.params,
                                          cost |-> r.cost, grad |-> r.grad]),
                     !.params = descend(opt.params, opt.alpha, r.grad),
                     !.costs = IF logged(opt.i) THEN Append(@, r.cost) ELSE @,
                     !.i = opt.i + 1]
    /\ UNCHANGED <<layers, layer_offsets, clsParams, lastOp, act>>

\* The loop is exhausted: `return params, costs`.
optReturn ==
    /\ opt.pc = "running"
    /\ ~moreIters(opt.i, opt.iters)
    /\ opt' = [opt EXCEPT !.pc = "done"]
    /\ UNCHANGED <<layers, layer_offsets, clsParams, lastOp, act>>

NextOpt == optStep \/ optReturn

SpecOpt == InitOpt /\ [][NextOpt]_vars

\* optimize is a synchronous loop: while it can take a step it does.
SpecOptFair == SpecOpt /\ WF_vars(NextOpt)

\* ------------------------------------------------------------- activations
\* relu_backward(dA, Z), elementwise: dA * int64(Z > 0)
relu_backward(dA, Z) == [k \in 1..Len(Z) |-> dA[k] * (IF Z[k] > 0 THEN 1 ELSE 0)]

\* relu_derv(z), elementwise: where(z >= 0, 1.0, 0.0)
relu_derv(z) == [k \in 1..Len(z) |-> IF z[k] >= 0 THEN 1 ELSE 0]

\* The entries offered in dA and Z: negative, zero, positive.
ActVals == {-1, 0, 1}

InitAct ==
    /\ layers = <<>>
    /\ layer_offsets = <<>>
    /\ clsParams = None
    /\ lastOp = [op |-> "new", status |-> "ok"]
    /\ opt = optIdle
    /\ \E n \in 1..MaxBatch :
         \E dA \in [1..n -> ActVals], Z \in [1..n -> ActVals] :
            act = [pc |-> "args", dA |-> dA, Z |-> Z,
                   hasBackward |-> FALSE, backward |-> <<>>,
                   hasDerv |-> FALSE, derv |-> <<>>]

\* dZ = relu_backward(dA, Z)
callReluBackward ==
    /\ act.pc = "args"
    /\ ~act.hasBackward
    /\ act' = [act EXCEPT !.hasBackward = TRUE,
                          !.backward = relu_backward(act.dA, act.Z)]
    /\ UNCHANGED <<layers, layer_offsets, clsParams, lastOp, opt>>

\* relu_derv(Z)
callReluDerv ==
    /\ act.pc = "args"
    /\ ~act.hasDerv
    /\ act' = [act EXCEPT !.hasDerv = TRUE, !.derv = relu_derv(act.Z)]
    /\ UNCHANGED <<layers, layer_offsets, clsParams, lastOp, opt>>

NextAct == callReluBackward \/ callReluDerv

SpecAct == InitAct /\ [][NextAct]_vars

\* ------------------------------------------------------------- properties
\* The offset table is the one compile() computes from the current layers.
Compiled == layer_offsets = compileTable(layers)

\* The number of transformation layers.
L == Len(layers) - 1

\* dim[l] for the Python layer index l in 0 .. L.
dim(l) == layers[l + 1].dim

\* The weight and bias ranges of layer l in the offset table.
wRange(l) == layer_offsets[l + 1][1]
bRange(l) == layer_offsets[l + 1][2]

\* The sum over l = from .. L of dim[l] * dim[l-1] + dim[l].
RECURSIVE totalFrom(_)
totalFrom(from) ==
    IF from > L THEN 0
    ELSE dim(from) * dim(from - 1) + dim(from) + totalFrom(from + 1)

\* The ranges (layer, kind) of the offset table that hold index x.
holders(x) ==
    {lk \in (1..L) \X {"w", "b"} :
        LET rg == IF lk[2] = "w" THEN wRange(lk[1]) ELSE bRange(lk[1])
        IN  rg.subscriptable /\ rg.lo <= x /\ x < rg.hi}

\* C1: after compile() on a model whose first add gave input_dim, the weight
\* and bias ranges of layers 1..L partition [0, total): every index lies in
\* exactly one range, layer l's weight range has length dim[l] * dim[l-1], its
\* bias range has length dim[l] and starts where the weight range ends, and the
\* ranges come in increasing layer order.
C1_OffsetTablePartition ==
    (lastOp.op = "compile" /\ layers # <<>> /\ layers[1].activation = "none") =>
        /\ Len(layer_offsets) = L + 1
        /\ \A l \in 1..L :
            /\ wRange(l).subscriptable /\ bRange(l).subscriptable
            /\ wRange(l).hi - wRange(l).lo = dim(l) * dim(l - 1)
            /\ bRange(l).hi - bRange(l).lo = dim(l)
            /\ bRange(l).lo = wRange(l).hi
        /\ \A l \in 1..(L - 1) : bRange(l).hi <= wRange(l + 1).lo
        /\ \A x \in 0..(totalFrom(1) - 1) : Cardinality(holders(x)) = 1

\* A three-layer model of widths 2, 2, 2 has just been compiled.
C1_Witness ==
    /\ lastOp.op = "compile"
    /\ Len(layers) = 3
    /\ layers[1].activation = "none"
    /\ \A l \in 0..2 : dim(l) = 2

\* C2: on a compiled model, for a layer l in 1..L and W, b of layer l's
\* shapes, pack_params(l, zeros, W, b) followed by unpack_params(l, params)
\* returns exactly (W, b), and params holds W row by row in the weight range
\* followed by b in the bias range.
C2_PackUnpackRoundTrip ==
    (/\ lastOp.op = "unpack_params"
     /\ Compiled
     /\ lastOp.layer = lastOp.packed.layer
     /\ lastOp.layer \in 1..L
     /\ Shape(lastOp.packed.W) = <<dim(lastOp.layer), dim(lastOp.layer - 1)>>
     /\ Shape(lastOp.packed.b) = <<dim(lastOp.layer), 1>>
     /\ lastOp.packed.before = [k \in 1..totalFrom(1) |-> 0]) =>
        LET l == lastOp.layer
            W == lastOp.packed.W
            b == lastOp.packed.b
            p == lastOp.packed.params
        IN  /\ lastOp.packed.status = "ok"
            /\ lastOp.status = "ok"
            /\ lastOp.W = W
            /\ lastOp.b = b
            /\ \A i \in 1..dim(l), j \in 1..dim(l - 1) :
                 p[wRange(l).lo + (i - 1) * dim(l - 1) + j] = W[i][j]
            /\ \A i \in 1..dim(l) : p[bRange(l).lo + i] = b[i][1]

\* A 2 x 2 weight matrix was packed into layer 2 and read back.
C2_Witness ==
    /\ lastOp.op = "unpack_params"
    /\ Compiled
    /\ lastOp.status = "ok"
    /\ lastOp.layer = 2
    /\ lastOp.packed.layer = 2
    /\ Shape(lastOp.packed.W) = <<2, 2>>

\* C5: on a compiled model pack_params fails and leaves params as it was
\* whenever layer is outside 1..L (0 and negative indices included), or W is
\* not of shape (dim[layer], dim[layer-1]), or b is not of shape
\* (dim[layer], 1).
C5_PackRejectsBadArguments ==
    (/\ lastOp.op = "pack_params"
     /\ Compiled
     /\ \/ lastOp.layer \notin 1..L
        \/ Shape(lastOp.W) # <<dim(lastOp.layer), dim(lastOp.layer - 1)>>
        \/ Shape(lastOp.b) # <<dim(lastOp.layer), 1>>) =>
        /\ lastOp.status # "ok"
        /\ lastOp.params = lastOp.before

\* C6: pack_params and train fail whenever the offset table is missing (no
\* compile() yet) or stale (the layers changed since the last compile()).
C6_UncompiledModelFails ==
    (/\ lastOp.op \in {"pack_params", "train"}
     /\ (layer_offsets = <<>> \/ ~Compiled)) =>
        lastOp.status # "ok"

\* C7: predict fails when train has never completed (self.params is None).
C7_PredictBeforeTrainFails ==
    (lastOp.op = "predict" /\ clsParams.isNone) => lastOp.status # "ok"

\* C8: after a successful add, layer 0 of a non-empty model has no activation
\* and every later layer has a registered one.
C8_InputLayerHasNoActivation ==
    (lastOp.op = "add" /\ lastOp.status = "ok" /\ layers # <<>>) =>
        /\ layers[1].activation = "none"
        /\ \A l \in 1..L : layers[l + 1].activation \in {"relu", "sigmoid"}

\* C10: an add that fails on an unregistered activation name leaves the layer
\* sequence as it was.
C10_FailedAddChangesNothing ==
    [][(lastOp'.op = "add" /\ lastOp'.status = "KeyError") => layers' = layers]_vars

\* ceil(a / b) for a >= 0, b > 0
CeilDiv(a, b) == (a + b - 1) \div b

\* The calls optimize has made to cost_fn: never more than iters; once it has
\* returned, exactly iters, on p0 and then on each params_i - alpha * grad_i
\* in order, where (cost_i, grad_i) is what cost_fn returned on params_i, and
\* the value returned is the last update (p0 itself when iters = 0).
C3_CallsChainToIters ==
    /\ opt.pc = "running" => Len(opt.calls) = opt.i /\ opt.i <= opt.iters
    /\ opt.pc = "done" =>
        /\ Len(opt.calls) = opt.iters
        /\ \A k \in 1..opt.iters :
            /\ opt.calls[k].params =
                 IF k = 1 THEN opt.p0
                 ELSE opt.calls[k - 1].params - opt.alpha * opt.calls[k - 1].grad
            /\ opt.calls[k].cost = cost_fn(opt.fn, opt.calls[k].params).cost
            /\ opt.calls[k].grad = cost_fn(opt.fn, opt.calls[k].params).grad
        /\ opt.params =
             IF opt.iters = 0 THEN opt.p0
             ELSE opt.calls[opt.iters].params
                    - opt.alpha * opt.calls[opt.iters].grad

\* C3: optimize calls cost_fn exactly iters times, on p0 and then on each
\* params_i - alpha * grad_i in order, it returns only after the iters-th call,
\* whatever the costs were, with the last update (p0 when iters = 0), and it
\* does reach the done state.
C3_OptimizeRunsItersSteps == []C3_CallsChainToIters /\ <>(opt.pc = "done")

\* optimize returned after 201 iterations although the cost was already 0,
\* with a zero gradient, at an earlier call.
C3_Witness ==
    /\ opt.pc = "done"
    /\ opt.iters = 201
    /\ \E k \in 1..100 : opt.calls[k].cost = 0 /\ opt.calls[k].grad = 0

\* C4: the cost trace optimize returns holds, in order, the cost cost_fn
\* returned at each call i in 0..iters-1 with i mod 100 = 0, so ceil(iters/100)
\* entries, none when iters = 0, the first being the cost of p0.
C4_CostTraceEvery100 ==
    opt.pc = "done" =>
        /\ Len(opt.costs) = CeilDiv(opt.iters, 100)
        /\ \A k \in 1..Len(opt.costs) :
             opt.costs[k] = opt.calls[100 * (k - 1) + 1].cost
        /\ opt.iters = 0 => opt.costs = <<>>
        /\ opt.iters > 0 => opt.costs[1] = cost_fn(opt.fn, opt.p0).cost

\* optimize returned a trace of three different costs after 201 iterations.
C4_Witness ==
    /\ opt.pc = "done"
    /\ opt.iters = 201
    /\ Len(opt.costs) = 3
    /\ opt.costs[1] # opt.costs[2]
    /\ opt.costs[2] # opt.costs[3]

\* C9: relu_backward(dA, Z) equals dA times relu_derv(Z), entry by entry, the
\* entries with Z = 0 included.
C9_ReluBackwardIsDerivative ==
    (act.pc = "args" /\ act.hasBackward /\ act.hasDerv) =>
        act.backward = [k \in 1..Len(act.Z) |-> act.dA[k] * act.derv[k]]

====
